---- MODULE Spec2Model ----
(***************************************************************************)
(* Model of the Excel Mock Interviewer (src/CN_assignment/app.py): the     *)
(* question bank loader, the keyword scorer, the phase machine and the     *)
(* conversation driver process_candidate_response, with main's handlers.   *)
(*                                                                         *)
(* Text.  A Python str is modelled as the sequence of its whitespace-      *)
(* separated words (single spaces between them) followed by `pad' copies   *)
(* of the filler word "and".  lower(), `term in text', count('.') and      *)
(* len() are computed word by word from tables that were generated from    *)
(* the literal strings of app.py.  A JSON value that is not a string is a  *)
(* value of kind "null".                                                   *)
(*                                                                         *)
(* Scores.  Python floats are modelled as integers: hundredths before      *)
(* rounding, tenths after round(x, 1) (so 3.0 is 30 and 6.25 is 625).      *)
(***************************************************************************)
EXTENDS Integers, Sequences, FiniteSets, TLC

(***************************************************************************)
(* Bounds of the model.                                                    *)
(***************************************************************************)
\* Longest per-phase question list among the small generated banks.
MaxSmallLen == 1
\* Per-phase list length of the large generated banks (two such lists reach
\* the 18-question ceiling).
BigLen == 9
\* Number of turns whose answer is drawn freely; later answers are the
\* default answer.
MaxVaried == 2
\* Number of consecutive turns in which no question is asked (a session in
\* wrapup, or stuck in a phase without questions).
MaxExtraTurns == 2
\* Number of probe words in a generated answer of the scorer specification.
MaxWords == 2
\* Number of entries in a generated question document.
MaxEntries == 2
\* Number of evaluation records the report builder's inputs are derived from.
MaxRecords == 2
\* Number of calls of the report builder with the same inputs.
MaxReportCalls == 2

(***************************************************************************)
(* Program constants.                                                      *)
(***************************************************************************)
\* app.py:592  if total_questions >= 18
QuestionCeiling == 18

Lexicon ==
    {"You", "use", "VLOOKUP", "to", "search", "a", "table", "and",
     "return", "matching", "value,", "for", "example", "finding", "price", "by",
     "product", "ID", "I", "don't", "know", "What's", "your", "experience",
     "with", "Excel?", "How", "long", "have", "you", "been", "using",
     "it?", "Can", "walk", "me", "through", "how", "would", "sum",
     "column", "of", "numbers?", "find", "data", "in", "table?", "Explain",
     "PivotTables", "work", "when", "you'd", "them.", "dataset", "10,000", "rows",
     "sales", "data.", "analyze", "it", "the", "top", "10", "customers?",
     "A", "formula", "is", "returning", "#N/A.", "What", "could", "be",
     "causing", "this?", "function", "Excel", "=SUM(A1:A10).", "pivot", "sumif", "check",
     "instance", "such", "as", "cell", "spreadsheet", "workbook", "worksheet", "think",
     "years", "In", "my", "Count", "items", "fix.", "total"}

LowerTable ==
    "You" :> "you" @@
    "VLOOKUP" :> "vlookup" @@
    "ID" :> "id" @@
    "I" :> "i" @@
    "What's" :> "what's" @@
    "Excel?" :> "excel?" @@
    "How" :> "how" @@
    "Can" :> "can" @@
    "Explain" :> "explain" @@
    "PivotTables" :> "pivottables" @@
    "A" :> "a" @@
    "#N/A." :> "#n/a." @@
    "What" :> "what" @@
    "Excel" :> "excel" @@
    "=SUM(A1:A10)." :> "=sum(a1:a10)." @@
    "In" :> "in" @@
    "Count" :> "count"

SubstringTable ==
    "vlookup" :> {"lookup", "vlookup"} @@
    "search" :> {"search"} @@
    "table" :> {"table"} @@
    "matching" :> {"match"} @@
    "example" :> {"example"} @@
    "finding" :> {"find"} @@
    "experience" :> {"experience"} @@
    "excel?" :> {"excel"} @@
    "sum" :> {"sum"} @@
    "numbers?" :> {"number"} @@
    "find" :> {"find"} @@
    "data" :> {"data"} @@
    "table?" :> {"table"} @@
    "pivottables" :> {"pivot", "table"} @@
    "dataset" :> {"data"} @@
    "data." :> {"data"} @@
    "analyze" :> {"analyze"} @@
    "formula" :> {"formula"} @@
    "function" :> {"function"} @@
    "excel" :> {"excel"} @@
    "=sum(a1:a10)." :> {"=", "sum"} @@
    "pivot" :> {"pivot"} @@
    "sumif" :> {"sum", "sumif"} @@
    "check" :> {"check"} @@
    "cell" :> {"cell"} @@
    "spreadsheet" :> {"spreadsheet"} @@
    "workbook" :> {"workbook"} @@
    "worksheet" :> {"worksheet"} @@
    "years" :> {"years"} @@
    "count" :> {"count"} @@
    "items" :> {"items"} @@
    "fix." :> {"fix"} @@
    "total" :> {"total"}

SuffixTable ==
    "for" :> {"for"} @@
    "i" :> {"i"} @@
    "how" :> {"how"} @@
    "in" :> {"in"} @@
    "explain" :> {"in"} @@
    "such" :> {"such"}

PrefixTable ==
    "experience" :> {"experience"} @@
    "would" :> {"would"} @@
    "instance" :> {"instance"} @@
    "as" :> {"as"} @@
    "think" :> {"think"}

PeriodTable ==
    "them." :> 1 @@
    "data." :> 1 @@
    "#N/A." :> 1 @@
    "=SUM(A1:A10)." :> 1 @@
    "fix." :> 1

LengthTable ==
    "You" :> 3 @@ "use" :> 3 @@ "VLOOKUP" :> 7 @@ "to" :> 2 @@ "search" :> 6 @@
    "a" :> 1 @@ "table" :> 5 @@ "and" :> 3 @@ "return" :> 6 @@ "matching" :> 8 @@
    "value," :> 6 @@ "for" :> 3 @@ "example" :> 7 @@ "finding" :> 7 @@ "price" :> 5 @@
    "by" :> 2 @@ "product" :> 7 @@ "ID" :> 2 @@ "I" :> 1 @@ "don't" :> 5 @@
    "know" :> 4 @@ "What's" :> 6 @@ "your" :> 4 @@ "experience" :> 10 @@ "with" :> 4 @@
    "Excel?" :> 6 @@ "How" :> 3 @@ "long" :> 4 @@ "have" :> 4 @@ "you" :> 3 @@
    "been" :> 4 @@ "using" :> 5 @@ "it?" :> 3 @@ "Can" :> 3 @@ "walk" :> 4 @@
    "me" :> 2 @@ "through" :> 7 @@ "how" :> 3 @@ "would" :> 5 @@ "sum" :> 3 @@
    "column" :> 6 @@ "of" :> 2 @@ "numbers?" :> 8 @@ "find" :> 4 @@ "data" :> 4 @@
    "in" :> 2 @@ "table?" :> 6 @@ "Explain" :> 7 @@ "PivotTables" :> 11 @@ "work" :> 4 @@
    "when" :> 4 @@ "you'd" :> 5 @@ "them." :> 5 @@ "dataset" :> 7 @@ "10,000" :> 6 @@
    "rows" :> 4 @@ "sales" :> 5 @@ "data." :> 5 @@ "analyze" :> 7 @@ "it" :> 2 @@
    "the" :> 3 @@ "top" :> 3 @@ "10" :> 2 @@ "customers?" :> 10 @@ "A" :> 1 @@
    "formula" :> 7 @@ "is" :> 2 @@ "returning" :> 9 @@ "#N/A." :> 5 @@ "What" :> 4 @@
    "could" :> 5 @@ "be" :> 2 @@ "causing" :> 7 @@ "this?" :> 5 @@ "function" :> 8 @@
    "Excel" :> 5 @@ "=SUM(A1:A10)." :> 13 @@ "pivot" :> 5 @@ "sumif" :> 5 @@ "check" :> 5 @@
    "instance" :> 8 @@ "such" :> 4 @@ "as" :> 2 @@ "cell" :> 4 @@ "spreadsheet" :> 11 @@
    "workbook" :> 8 @@ "worksheet" :> 9 @@ "think" :> 5 @@ "years" :> 5 @@ "In" :> 2 @@
    "my" :> 2 @@ "Count" :> 5 @@ "items" :> 5 @@ "fix." :> 4 @@ "total" :> 5

VlookupAnswer ==
    <<"You", "use", "VLOOKUP", "to", "search", "a", "table", "and",
      "return", "a", "matching", "value,", "for", "example", "finding", "a",
      "price", "by", "product", "ID">>

IDontKnow ==
    <<"I", "don't", "know">>

W1Text ==
    <<"What's", "your", "experience", "with", "Excel?", "How", "long", "have",
      "you", "been", "using", "it?">>

W2Text ==
    <<"Can", "you", "walk", "me", "through", "how", "you", "would",
      "sum", "a", "column", "of", "numbers?">>

C1Text ==
    <<"How", "would", "you", "use", "VLOOKUP", "to", "find", "data",
      "in", "a", "table?">>

C2Text ==
    <<"Explain", "how", "PivotTables", "work", "and", "when", "you'd", "use",
      "them.">>

S1Text ==
    <<"You", "have", "a", "dataset", "with", "10,000", "rows", "of",
      "sales", "data.", "How", "would", "you", "analyze", "it", "to",
      "find", "the", "top", "10", "customers?">>

T1Text ==
    <<"A", "VLOOKUP", "formula", "is", "returning", "#N/A.", "What", "could",
      "be", "causing", "this?">>

(***************************************************************************)
(* Text model.                                                             *)
(***************************************************************************)
FillerWord == "and"

\* A Python str: its words, then `pad' filler words.
Str(ws) == [kind |-> "str", words |-> ws, pad |-> 0]
Padded(ws, n) == [kind |-> "str", words |-> ws, pad |-> n]
\* A JSON value that is not a string (null, a number, a list).
JsonNull == [kind |-> "null", words |-> <<>>, pad |-> 0]

IsStr(s) == s.kind = "str"

\* str.split(): the list of whitespace-separated words.
Split(s) == s.words \o [i \in 1..s.pad |-> FillerWord]

\* str.lower() of one word.
LowerWord(w) == IF w \in DOMAIN LowerTable THEN LowerTable[w] ELSE w

\* str.lower().
Lower(s) == [s EXCEPT !.words = [i \in DOMAIN s.words |-> LowerWord(s.words[i])]]

\* The single-word search terms of app.py that occur inside word w, and the
\* first (last) words of its several-word terms that w ends (starts) with.
SubstringsOf(w) == IF w \in DOMAIN SubstringTable THEN SubstringTable[w] ELSE {}
SuffixesOf(w) == IF w \in DOMAIN SuffixTable THEN SuffixTable[w] ELSE {}
PrefixesOf(w) == IF w \in DOMAIN PrefixTable THEN PrefixTable[w] ELSE {}

\* `term in s' for a term without a space: it occurs inside one of the
\* words (all filler words are the same word).
ContainsWord(s, term) ==
    \/ \E i \in DOMAIN s.words : term \in SubstringsOf(s.words[i])
    \/ s.pad > 0 /\ term \in SubstringsOf(FillerWord)

\* `term in s' for a term of several words, given as the sequence of its
\* words: the first ends a word of s, the last starts a later word, the
\* words between are equal.
ContainsPhrase(s, parts) ==
    LET ws == Split(s)
        n == Len(parts)
    IN  \E i \in 1..(Len(ws) - n + 1) :
            /\ parts[1] \in SuffixesOf(ws[i])
            /\ parts[n] \in PrefixesOf(ws[i + n - 1])
            /\ \A k \in 2..(n - 1) : ws[i + k - 1] = parts[k]

\* any(term in s for term in terms)
AnyWord(s, terms) == \E t \in terms : ContainsWord(s, t)
AnyPhrase(s, phrases) == \E p \in phrases : ContainsPhrase(s, p)

RECURSIVE SumSeq(_)
SumSeq(xs) == IF xs = <<>> THEN 0 ELSE Head(xs) + SumSeq(Tail(xs))

\* str.count('.')
PeriodsOf(w) == IF w \in DOMAIN PeriodTable THEN PeriodTable[w] ELSE 0
CountPeriods(s) ==
    SumSeq([i \in DOMAIN s.words |-> PeriodsOf(s.words[i])]) + s.pad * PeriodsOf(FillerWord)

\* len(s.strip()): the letters of the words and one space between two.
LengthOf(w) == LengthTable[w]
StripLen(s) ==
    IF s.words = <<>> /\ s.pad = 0 THEN 0
    ELSE SumSeq([i \in DOMAIN s.words |-> LengthOf(s.words[i])])
         + s.pad * LengthOf(FillerWord) + (Len(s.words) + s.pad - 1)

Min(a, b) == IF a <= b THEN a ELSE b
Max(a, b) == IF a >= b THEN a ELSE b

\* round(x, 1) of x given in hundredths; the result is in tenths.  Ties go
\* to the even tenth, as Python's round does on the exactly representable
\* quarters the scorer produces.
RoundTenth(h) ==
    LET q == h \div 10
        r == h % 10
    IN  IF r < 5 THEN q
        ELSE IF r > 5 THEN q + 1
        ELSE IF q % 2 = 0 THEN q ELSE q + 1

(***************************************************************************)
(* Phases (class InterviewPhase).                                          *)
(***************************************************************************)
GREETING == "greeting"
WARMUP == "warmup"
CORE_SKILLS == "core_skills"
SCENARIO_BASED == "scenario_based"
TROUBLESHOOTING == "troubleshooting"
WRAPUP == "wrapup"
FEEDBACK == "feedback"

InterviewPhase ==
    {GREETING, WARMUP, CORE_SKILLS, SCENARIO_BASED, TROUBLESHOOTING, WRAPUP, FEEDBACK}

\* The four phases that have a question list.
QuestionPhases == {WARMUP, CORE_SKILLS, SCENARIO_BASED, TROUBLESHOOTING}

(***************************************************************************)
(* Scorer: _ai_evaluate_response.                                          *)
(***************************************************************************)
CoreTerms == {"function", "formula", "cell", "range", "data"}
FormulaTerms == {"=", "sum", "count", "average", "vlookup", "index", "match"}
PivotTerms == {"pivot", "table"}
ExampleWords == {"example"}
ExamplePhrases == {<<"for", "instance">>, <<"such", "as">>}
ExcelTerms == {"excel", "spreadsheet", "worksheet", "workbook", "formula", "function"}
WarmupTerms == {"experience", "years", "used", "familiar"}
CoreSkillsTerms == {"vlookup", "index", "match", "sumif", "countif"}
ScenarioTerms == {"analyze", "pivot", "filter", "sort"}
TroubleshootingTerms == {"error", "fix", "debug", "check"}

\* Lines 196-208: the phase-specific addition to technical_accuracy.
PhaseBonus(response_lower, phase) ==
    IF phase = WARMUP
    THEN (IF AnyWord(response_lower, WarmupTerms) THEN 2 ELSE 0)
    ELSE IF phase = CORE_SKILLS
    THEN (IF AnyWord(response_lower, CoreSkillsTerms) THEN 3 ELSE 0)
    ELSE IF phase = SCENARIO_BASED
    THEN (IF AnyWord(response_lower, ScenarioTerms) THEN 3 ELSE 0)
    ELSE IF phase = TROUBLESHOOTING
    THEN (IF AnyWord(response_lower, TroubleshootingTerms) THEN 3 ELSE 0)
    ELSE 0

\* Lines 155-166 and 196-208.
technical_accuracy(response_lower, phase) ==
      (IF AnyWord(response_lower, CoreTerms) THEN 3 ELSE 0)
    + (IF AnyWord(response_lower, FormulaTerms) THEN 4 ELSE 0)
    + (IF AnyWord(response_lower, PivotTerms) THEN 2 ELSE 0)
    + PhaseBonus(response_lower, phase)

word_count(response) == Len(response.words) + response.pad

\* Mutant of completeness: an answer of exactly 50 words is in the top band.
completeness_TopInclusive(response) ==
    IF word_count(response) >= 50 THEN 4
    ELSE IF word_count(response) > 20 THEN 2
    ELSE 1

\* Mutant of completeness: an answer of exactly 20 words is in the middle band.
completeness_Inclusive(response) ==
    IF word_count(response) > 50 THEN 4
    ELSE IF word_count(response) >= 20 THEN 2
    ELSE 1

\* Lines 168-177.
completeness(response) ==
    IF word_count(response) > 50 THEN 4
    ELSE IF word_count(response) > 20 THEN 2
    ELSE 1

HasExample(response_lower) ==
    AnyWord(response_lower, ExampleWords) \/ AnyPhrase(response_lower, ExamplePhrases)

\* Mutant of clarity: one period is enough for the structure points.
clarity_OnePeriod(response, response_lower) ==
      (IF CountPeriods(response) >= 1 THEN 2 ELSE 0)
    + (IF HasExample(response_lower) THEN 2 ELSE 0)

\* Lines 179-186.
clarity(response, response_lower) ==
      (IF CountPeriods(response) > 1 THEN 2 ELSE 0)
    + (IF HasExample(response_lower) THEN 2 ELSE 0)

\* Lines 188-190.
excel_term_count(response_lower) ==
    Cardinality({t \in ExcelTerms : ContainsWord(response_lower, t)})
\* Mutant of excel_knowledge: the number of terms is not capped.
excel_knowledge_Uncapped(response_lower) == excel_term_count(response_lower)
\* Line 191.
excel_knowledge(response_lower) == Min(5, excel_term_count(response_lower))

\* Line 211, in hundredths: (sum of the four sub-scores) / 4.
total_score(response, phase) ==
    LET response_lower == Lower(response)
    IN  25 * ( technical_accuracy(response_lower, phase) + completeness(response)
             + clarity(response, response_lower) + excel_knowledge(response_lower) )

\* Mutant of final_score: the score is not clamped.
final_score_Unclamped(response, phase) == total_score(response, phase)

\* Line 212, in hundredths: min(10, max(1, total_score)).
final_score(response, phase) == Min(1000, Max(100, total_score(response, phase)))

\* Lines 214-223.
AiReasoning(final) ==
    IF final >= 800 THEN "Excellent response demonstrating strong Excel knowledge"
    ELSE IF final >= 600 THEN "Good response with solid Excel understanding"
    ELSE IF final >= 400 THEN "Basic response showing some Excel knowledge"
    ELSE "Response needs improvement in technical detail"

Note(cond, text) == IF cond THEN <<text>> ELSE <<>>

\* The strengths list in the order the checks append to it.
AiStrengths(response) ==
    LET rl == Lower(response)
    IN  Note(AnyWord(rl, CoreTerms), "Uses Excel terminology correctly")
     \o Note(AnyWord(rl, FormulaTerms), "Demonstrates knowledge of Excel functions")
     \o Note(AnyWord(rl, PivotTerms), "Shows understanding of data analysis tools")
     \o Note(word_count(response) > 50, "Provides comprehensive answer")
     \o Note(CountPeriods(response) > 1, "Well-structured response")
     \o Note(HasExample(rl), "Provides examples")
     \o Note(excel_knowledge(rl) > 2, "Demonstrates Excel expertise")

\* Mutant of AiImprovements: short answers are not asked for more detail.
AiImprovements_NoDetail(response, final) ==
    Note(final < 400, "Focus on Excel-specific terminology and examples")

\* The improvement list: line 176, then line 223.
AiImprovements(response, final) ==
       Note(word_count(response) <= 20, "Could provide more detail")
    \o Note(final < 400, "Focus on Excel-specific terminology and examples")

\* Mutant of AiResult: empty lists are returned as they are.
AiResult_NoDefaults(response, phase) ==
    LET final == final_score(response, phase)
    IN  [score |-> RoundTenth(final),
         reasoning |-> <<AiReasoning(final)>>,
         strengths |-> AiStrengths(response),
         areas_for_improvement |-> AiImprovements(response, final),
         evaluation_type |-> "advanced"]

\* Lines 225-231: the dictionary returned when nothing was raised.  The
\* reasoning is kept as the list of sentences that ". ".join() joins.
AiResult(response, phase) ==
    LET final == final_score(response, phase)
        strengths == AiStrengths(response)
        areas_for_improvement == AiImprovements(response, final)
    IN  [score |-> RoundTenth(final),
         reasoning |-> <<AiReasoning(final)>>,
         strengths |-> IF strengths # <<>> THEN strengths ELSE <<"Attempted to answer">>,
         areas_for_improvement |-> IF areas_for_improvement # <<>>
                                   THEN areas_for_improvement
                                   ELSE <<"Provide more technical detail">>,
         evaluation_type |-> "advanced"]

\* Lines 143-144 and 240-241: response.lower() and
\* question.get("question", "").lower() raise AttributeError when the value
\* is not a str.
LowerRaises(question, response) == ~IsStr(response) \/ ~IsStr(question.question)

(***************************************************************************)
(* Fallback scorer: _rule_based_evaluate_response.                         *)
(***************************************************************************)
SumAnswerTerms == {"add", "total", "sum", "plus", "addition", "calculate"}
CountAnswerTerms == {"count", "number", "quantity", "items"}
CountAnswerPhrases == {<<"how", "many">>}
VlookupAnswerTerms == {"lookup", "find", "search", "match", "reference", "table"}
PivotAnswerTerms == {"pivot", "table", "summarize", "group", "analyze", "data"}
RuleExcelTerms == {"excel", "spreadsheet", "worksheet", "workbook", "cell", "range", "formula"}
TechnicalIndicators == {"function", "formula", "data", "analysis", "business", "report"}
ConfidenceWords == {"typically"}
ConfidencePhrases ==
    {<<"i", "think">>, <<"i", "believe">>, <<"i", "would">>, <<"i", "usually">>,
     <<"in", "my", "experience">>}

\* Lines 249-260, in tenths.
RuleLengthScore(response) ==
    IF StripLen(response) < 10 THEN 10
    ELSE IF StripLen(response) < 30 THEN 20
    ELSE IF StripLen(response) > 50 THEN 30
    ELSE 0

\* Lines 262-289: which topic branch the question text selects.
RuleTopic(question_text) ==
    IF ContainsWord(question_text, "sum") THEN "sum"
    ELSE IF ContainsWord(question_text, "count") THEN "count"
    ELSE IF ContainsWord(question_text, "vlookup") THEN "vlookup"
    ELSE IF ContainsWord(question_text, "pivot") THEN "pivot"
    ELSE "none"

RuleTopicHit(topic, rl) ==
    \/ topic = "sum" /\ AnyWord(rl, SumAnswerTerms)
    \/ topic = "count" /\ (AnyWord(rl, CountAnswerTerms) \/ AnyPhrase(rl, CountAnswerPhrases))
    \/ topic = "vlookup" /\ AnyWord(rl, VlookupAnswerTerms)
    \/ topic = "pivot" /\ AnyWord(rl, PivotAnswerTerms)

found_excel_terms(rl) == Cardinality({t \in RuleExcelTerms : ContainsWord(rl, t)})
found_technical(rl) == Cardinality({t \in TechnicalIndicators : ContainsWord(rl, t)})
RuleConfident(rl) == AnyWord(rl, ConfidenceWords) \/ AnyPhrase(rl, ConfidencePhrases)

\* Lines 244-309, in tenths: the score before it is clamped.
RuleRawScore(question, response) ==
    LET rl == Lower(response)
        topic == RuleTopic(Lower(question.question))
    IN    RuleLengthScore(response)
        + (IF RuleTopicHit(topic, rl) THEN 30 ELSE 0)
        + Min(found_excel_terms(rl) * 5, 20)
        + Min(found_technical(rl) * 3, 15)
        + (IF RuleConfident(rl) THEN 5 ELSE 0)

\* Line 312, in tenths: max(1.0, min(10.0, score)).
RuleScore(question, response) == Max(10, Min(100, RuleRawScore(question, response)))

RuleLengthReasoning(response) ==
    IF StripLen(response) < 10 THEN <<"Very short response">>
    ELSE IF StripLen(response) < 30 THEN <<"Short response">>
    ELSE IF StripLen(response) > 50 THEN <<"Detailed response">>
    ELSE <<>>

RuleBandReasoning(score) ==
    IF score >= 80 THEN "Excellent technical response with clear understanding"
    ELSE IF score >= 60 THEN "Good response demonstrating solid Excel knowledge"
    ELSE IF score >= 40 THEN "Basic response showing some understanding"
    ELSE "Response needs significant improvement in technical detail"

RuleTopicStrength(topic) ==
    IF topic = "sum" THEN "Correctly identifies SUM function purpose"
    ELSE IF topic = "count" THEN "Understands COUNT function purpose"
    ELSE IF topic = "vlookup" THEN "Shows understanding of VLOOKUP concept"
    ELSE "Understands PivotTable functionality"

RuleTopicImprovement(topic) ==
    IF topic = "sum" THEN "Should mention adding/totaling numbers"
    ELSE IF topic = "count" THEN "Should mention counting items"
    ELSE IF topic = "vlookup" THEN "Should mention looking up values in tables"
    ELSE "Should mention data summarization and analysis"

RuleStrengths(question, response) ==
    LET rl == Lower(response)
        topic == RuleTopic(Lower(question.question))
    IN  Note(StripLen(response) > 50, "Provides comprehensive answer")
     \o Note(RuleTopicHit(topic, rl), RuleTopicStrength(topic))
     \o Note(found_excel_terms(rl) > 0, "Uses appropriate Excel terminology")
     \o Note(found_technical(rl) > 0, "Shows technical understanding")
     \o Note(RuleConfident(rl), "Shows confidence in response")

RuleImprovements(question, response) ==
    LET rl == Lower(response)
        topic == RuleTopic(Lower(question.question))
    IN  Note(StripLen(response) < 10, "Provide more detailed answers")
     \o Note(topic # "none" /\ ~RuleTopicHit(topic, rl), RuleTopicImprovement(topic))

\* Lines 324-329: the dictionary returned when nothing was raised.
RuleResult(question, response) ==
    LET score == RuleScore(question, response)
        strengths == RuleStrengths(question, response)
        areas_for_improvement == RuleImprovements(question, response)
    IN  [score |-> score,
         reasoning |-> RuleLengthReasoning(response) \o <<RuleBandReasoning(score)>>,
         strengths |-> IF strengths # <<>> THEN strengths ELSE <<"Attempted to answer">>,
         areas_for_improvement |-> IF areas_for_improvement # <<>>
                                   THEN areas_for_improvement
                                   ELSE <<"Provide more technical detail">>]

\* Lines 331-338: the dictionary of the except branch.
NeutralResult ==
    [score |-> 50,
     reasoning |-> <<"Basic response evaluation">>,
     strengths |-> <<"Responded to question">>,
     areas_for_improvement |-> <<"Could provide more technical detail">>]

\* An exception that leaves a try block (or the function).
Raised == [exception |-> "AttributeError"]

\* Lines 240-329: the try block of _rule_based_evaluate_response.
RuleTry(question, response, phase) ==
    IF LowerRaises(question, response) THEN Raised ELSE RuleResult(question, response)

\* Mutant of rule_based_evaluate_response: no except branch, the exception
\* leaves the function.
rule_based_evaluate_response_NoHandler(question, response, phase) ==
    RuleTry(question, response, phase)

\* Lines 237-338: on any exception the neutral dictionary is returned.
rule_based_evaluate_response(question, response, phase) ==
    LET result == RuleTry(question, response, phase)
    IN  IF result = Raised THEN NeutralResult ELSE result

\* Lines 142-231: the try block of _ai_evaluate_response.
AiTry(question, response, phase) ==
    IF LowerRaises(question, response) THEN Raised ELSE AiResult(response, phase)

\* Lines 139-235: on any exception the result of
\* _rule_based_evaluate_response is returned.
ai_evaluate_response(question, response, phase) ==
    LET result == AiTry(question, response, phase)
    IN  IF result = Raised
        THEN rule_based_evaluate_response(question, response, phase)
        ELSE result

(***************************************************************************)
(* Optional values and question records.                                   *)
(***************************************************************************)
\* Optional[X]: None is the empty sequence, a value x is <<x>>.
None == <<>>
Some(x) == <<x>>

\* Question ids are opaque; "w1" is written <<"w", 1>>.  The empty id is a
\* falsy id (an empty string in the question document).
EmptyId == <<"", 0>>
Truthy(id) == id # None /\ id # EmptyId

Question(id, text) == [id |-> id, question |-> text]

(***************************************************************************)
(* Question bank: _get_fallback_questions and _load_question_bank.         *)
(***************************************************************************)
\* Mutant of get_fallback_questions: one question for each phase.
get_fallback_questions_OnePerPhase ==
    [p \in QuestionPhases |->
        IF p = WARMUP THEN <<Question(<<"w", 1>>, Str(W1Text))>>
        ELSE IF p = CORE_SKILLS THEN <<Question(<<"c", 1>>, Str(C1Text))>>
        ELSE IF p = SCENARIO_BASED THEN <<Question(<<"s", 1>>, Str(S1Text))>>
        ELSE <<Question(<<"t", 1>>, Str(T1Text))>>]

\* Lines 102-119.
get_fallback_questions ==
    [p \in QuestionPhases |->
        IF p = WARMUP
        THEN <<Question(<<"w", 1>>, Str(W1Text)), Question(<<"w", 2>>, Str(W2Text))>>
        ELSE IF p = CORE_SKILLS
        THEN <<Question(<<"c", 1>>, Str(C1Text)), Question(<<"c", 2>>, Str(C2Text))>>
        ELSE IF p = SCENARIO_BASED
        THEN <<Question(<<"s", 1>>, Str(S1Text))>>
        ELSE <<Question(<<"t", 1>>, Str(T1Text))>>]

\* An entry of the document's question list: an object with id, section
\* (Optional) and question text, or a value that is not an object.
Entry(id, section, text) == [kind |-> "object", id |-> id, section |-> section, question |-> text]
ScalarEntry == [kind |-> "scalar", id |-> None, section |-> None, question |-> JsonNull]

\* Lines 85-92: the phase a section tag is filed under (None: dropped).
SectionPhase(section) ==
    IF section = "warmup" THEN Some(WARMUP)
    ELSE IF section = "core" THEN Some(CORE_SKILLS)
    ELSE IF section = "scenario" THEN Some(SCENARIO_BASED)
    ELSE IF section = "troubleshoot" THEN Some(TROUBLESHOOTING)
    ELSE None

\* Line 83: question.get('section', 'warmup'); an entry without the key has
\* section None.
EntrySection(e) == IF e.section = None THEN "warmup" ELSE e.section[1]

\* Lines 75-92: the entries of the document filed by section, in order.
RECURSIVE Organize(_)
Organize(entries) ==
    IF entries = <<>>
    THEN [p \in QuestionPhases |-> <<>>]
    ELSE LET rest == Organize(SubSeq(entries, 1, Len(entries) - 1))
             e == entries[Len(entries)]
             target == SectionPhase(EntrySection(e))
         IN  IF target = None THEN rest
             ELSE [rest EXCEPT ![target[1]] = Append(@, Question(e.id, e.question))]

\* A document is a record: kind "missing" (no file), "unparseable" (json.load
\* raises), "array" (the top level is not an object), or "object" with
\* `questions': None (key absent), or a sequence of entries; an entry of
\* kind "scalar" is not an object (entry.get raises AttributeError).
DocumentRaises(doc) ==
    \/ doc.kind \in {"missing", "unparseable", "array"}
    \/ /\ doc.questions # None
       /\ \E i \in DOMAIN doc.questions[1] : doc.questions[1][i].kind = "scalar"

\* Lines 68-100.
load_question_bank(doc) ==
    IF DocumentRaises(doc)
    THEN get_fallback_questions
    ELSE IF doc.questions = None
    THEN Organize(<<>>)
    ELSE Organize(doc.questions[1])

\* self.questions.get(phase.value, [])
QuestionsOf(bank, phase) == IF phase \in DOMAIN bank THEN bank[phase] ELSE <<>>

(***************************************************************************)
(* Session state (InterviewState, InterviewMessage).                       *)
(***************************************************************************)
\* InterviewMessage without its timestamp and its (never set) evaluation.
Message(role, content, phase, question_id) ==
    [role |-> role, content |-> content, phase |-> phase, question_id |-> question_id]

\* InterviewState without start_time and metadata; current_question is
\* Optional.
InterviewState(name, phase, history, question, scores) ==
    [candidate_name |-> name, current_phase |-> phase,
     conversation_history |-> history, current_question |-> question,
     evaluation_scores |-> scores]


(***************************************************************************)
(* Phase machine and question selection.                                   *)
(***************************************************************************)
\* Lines 348-349: interviewer messages of the phase that carry a question id.
question_index(state) ==
    LET Asked(msg) == /\ msg.phase = state.current_phase
                      /\ msg.role = "interviewer"
                      /\ Truthy(msg.question_id)
    IN  Len(SelectSeq(state.conversation_history, Asked))

\* Lines 340-354.
get_next_question(bank, state) ==
    LET phase_questions == QuestionsOf(bank, state.current_phase)
        index == question_index(state)
    IN  IF phase_questions = <<>> THEN None
        ELSE IF index < Len(phase_questions)
        THEN Some(phase_questions[index + 1])
        ELSE None

\* Mutant of questions_in_phase: only messages with a truthy id are counted.
questions_in_phase_Truthy(state) ==
    LET InPhase(msg) == /\ msg.phase = state.current_phase
                        /\ msg.role = "interviewer"
                        /\ Truthy(msg.question_id)
    IN  Len(SelectSeq(state.conversation_history, InPhase))

\* Lines 410-411: interviewer messages of the phase, with or without an id.
questions_in_phase(state) ==
    LET InPhase(msg) == msg.phase = state.current_phase /\ msg.role = "interviewer"
    IN  Len(SelectSeq(state.conversation_history, InPhase))

\* Mutant of Successor: scenario_based leads back to core_skills.
Successor_Back(phase) ==
    IF phase = GREETING THEN WARMUP
    ELSE IF phase = WARMUP THEN CORE_SKILLS
    ELSE IF phase = CORE_SKILLS THEN SCENARIO_BASED
    ELSE IF phase = SCENARIO_BASED THEN CORE_SKILLS
    ELSE IF phase = TROUBLESHOOTING THEN WRAPUP
    ELSE WRAPUP

\* Lines 420-433.
Successor(phase) ==
    IF phase = GREETING THEN WARMUP
    ELSE IF phase = WARMUP THEN CORE_SKILLS
    ELSE IF phase = CORE_SKILLS THEN SCENARIO_BASED
    ELSE IF phase = SCENARIO_BASED THEN TROUBLESHOOTING
    ELSE IF phase = TROUBLESHOOTING THEN WRAPUP
    ELSE WRAPUP

\* Mutant of transition_to_next_phase: the comparison is strict.
transition_to_next_phase_Strict(bank, state) ==
    LET current_phase_questions == QuestionsOf(bank, state.current_phase)
    IN  IF /\ questions_in_phase(state) > Len(current_phase_questions)
           /\ current_phase_questions # <<>>
        THEN Successor(state.current_phase)
        ELSE state.current_phase

\* Mutant of transition_to_next_phase: an empty list counts as exhausted.
transition_to_next_phase_EmptyAdvances(bank, state) ==
    LET current_phase_questions == QuestionsOf(bank, state.current_phase)
    IN  IF questions_in_phase(state) >= Len(current_phase_questions)
        THEN Successor(state.current_phase)
        ELSE state.current_phase

\* Lines 407-435.
transition_to_next_phase(bank, state) ==
    LET current_phase_questions == QuestionsOf(bank, state.current_phase)
    IN  IF /\ questions_in_phase(state) >= Len(current_phase_questions)
           /\ current_phase_questions # <<>>
        THEN Successor(state.current_phase)
        ELSE state.current_phase

\* Lines 589-590: interviewer messages outside the greeting phase.
total_questions(state) ==
    LET Counted(msg) == msg.role = "interviewer" /\ msg.phase # GREETING
    IN  Len(SelectSeq(state.conversation_history, Counted))

(***************************************************************************)
(* Final report.                                                           *)
(***************************************************************************)
\* Lines 607-608: the sum of the stored scores (tenths) and their number;
\* the average is their quotient, 0 when there are none.
ScoreSum(scores) == SumSeq([i \in DOMAIN scores |-> scores[i].score])
AtLeast(sum, n, bound) == n > 0 /\ sum >= bound * 10 * n

\* Lines 611-616: the scores grouped by phase tag, phases in the order of
\* their first score.
RECURSIVE PhaseOrder(_)
PhaseOrder(scores) ==
    IF scores = <<>> THEN <<>>
    ELSE LET rest == PhaseOrder(SubSeq(scores, 1, Len(scores) - 1))
             p == scores[Len(scores)].phase
         IN  IF \E i \in DOMAIN rest : rest[i] = p THEN rest ELSE Append(rest, p)

PhaseScoreList(scores, p) ==
    LET Of(e) == e.phase = p
    IN  [i \in DOMAIN SelectSeq(scores, Of) |-> SelectSeq(scores, Of)[i].score]

phase_scores(scores) ==
    [i \in DOMAIN PhaseOrder(scores) |->
        [phase |-> PhaseOrder(scores)[i],
         scores |-> PhaseScoreList(scores, PhaseOrder(scores)[i])]]

\* Lines 494-499.
PhaseNote(list) ==
    IF AtLeast(SumSeq(list), Len(list), 8) THEN "Excellent performance"
    ELSE IF AtLeast(SumSeq(list), Len(list), 6) THEN "Good performance"
    ELSE "Needs improvement"

\* Mutant of Assessment: the band from 4 to 6 is missing.
Assessment_ThreeBands(sum, n) ==
    IF AtLeast(sum, n, 8) THEN "Excellent Performance!"
    ELSE IF AtLeast(sum, n, 6) THEN "Good Performance"
    ELSE "Needs Focused Learning"

\* Lines 501-525.
Assessment(sum, n) ==
    IF AtLeast(sum, n, 8) THEN "Excellent Performance!"
    ELSE IF AtLeast(sum, n, 6) THEN "Good Performance"
    ELSE IF AtLeast(sum, n, 4) THEN "Developing Skills"
    ELSE "Needs Focused Learning"

\* Lines 527-535.
NextSteps(sum, n) ==
    IF AtLeast(sum, n, 6) THEN "Practice advanced Excel features"
    ELSE "Complete Excel fundamentals training"

\* Lines 480-537: the report text, kept as the values its template is
\* filled with.  The overall average is the pair (sum, n).
generate_fallback_report(sum, n, by_phase, total) ==
    [kind |-> "report",
     title |-> "Interview Complete!",
     overall |-> <<sum, n>>,
     answered |-> total,
     categories |-> [i \in DOMAIN by_phase |->
                        [phase |-> by_phase[i].phase,
                         scores |-> by_phase[i].scores,
                         note |-> PhaseNote(by_phase[i].scores)]],
     assessment |-> Assessment(sum, n),
     next_steps |-> NextSteps(sum, n)]

\* The attributes __init__ sets on the agent (lines 63-66).
AgentAttributes == {"questions", "model_url", "evaluation_url"}

\* What requests.post does for the enrichment request (line 126): it raises
\* (connection error, timeout after 10 seconds) or returns a response: an
\* error status, or status 200 with generated text of 50 or of 51
\* characters.
ShortText == Padded(<<"as">>, 12)
LongText == Padded(<<"for">>, 12)
Response(status_code, generated_text) ==
    [kind |-> "response", status_code |-> status_code, generated_text |-> generated_text]
RequestOutcomes ==
    {[kind |-> "raises", exception |-> "ConnectionError"],
     [kind |-> "raises", exception |-> "Timeout"],
     Response(503, LongText), Response(200, ShortText), Response(200, LongText)}

\* Lines 121-137: the generated text of a 200 response, "" otherwise and on
\* any exception.
call_ai_model(outcome) ==
    IF outcome.kind = "raises" THEN Str(<<>>)
    ELSE IF outcome.status_code = 200 THEN outcome.generated_text
    ELSE Str(<<>>)

\* Mutant of generate_ai_final_report: without the except branch of line
\* 476 the exception leaves the function.
generate_ai_final_report_NoHandler(state, sum, n, by_phase, outcome) ==
    IF "evaluation_model_url" \in AgentAttributes
    THEN (IF StripLen(call_ai_model(outcome)) > 50
          THEN [kind |-> "enriched", text |-> call_ai_model(outcome)]
          ELSE generate_fallback_report(sum, n, by_phase, Len(state.evaluation_scores)))
    ELSE Raised

\* Lines 437-478.  Line 469 reads self.evaluation_model_url, which __init__
\* never sets: the AttributeError is raised before _call_ai_model is entered
\* and is caught at line 476, which returns the structured report.  With the
\* attribute, text of more than 50 characters would be returned (470-471)
\* and the structured report otherwise (472-474).
generate_ai_final_report(state, sum, n, by_phase, outcome) ==
    IF "evaluation_model_url" \in AgentAttributes
    THEN (IF StripLen(call_ai_model(outcome)) > 50
          THEN [kind |-> "enriched", text |-> call_ai_model(outcome)]
          ELSE generate_fallback_report(sum, n, by_phase, Len(state.evaluation_scores)))
    ELSE generate_fallback_report(sum, n, by_phase, Len(state.evaluation_scores))
(***************************************************************************)
(* Conversation driver: process_candidate_response.                        *)
(***************************************************************************)
\* Mutant of AppendCandidate: the message is tagged with the phase the
\* session was created with.
AppendCandidate_Stale(state, response) ==
    [state EXCEPT !.conversation_history =
        Append(@, Message("candidate", response, GREETING, None))]

\* Lines 543-549: the candidate's message is appended.
AppendCandidate(state, response) ==
    [state EXCEPT !.conversation_history =
        Append(@, Message("candidate", response, state.current_phase, None))]

\* Mutant of EvaluatePending: the pending question is cleared without a
\* record.
EvaluatePending_NoRecord(state, response) ==
    [state EXCEPT !.current_question = None]

\* Lines 552-561: a pending question is scored and cleared.
EvaluatePending(state, response) ==
    IF state.current_question # None
    THEN [state EXCEPT
            !.evaluation_scores =
                Append(@, [question_id |-> state.current_question[1].id,
                           score |-> ai_evaluate_response(state.current_question[1],
                                        response, state.current_phase).score,
                           phase |-> state.current_phase]),
            !.current_question = None]
    ELSE state

\* Lines 566-567.
LeaveGreeting(state) ==
    IF state.current_phase = GREETING
    THEN [state EXCEPT !.current_phase = WARMUP]
    ELSE state

\* Lines 570-584: the next question of the phase, if there is one, becomes
\* the pending question and is appended as an interviewer message.
AskQuestion(bank, state) ==
    LET next_question == get_next_question(bank, state)
    IN  IF next_question # None
        THEN [state EXCEPT
                !.current_question = next_question,
                !.conversation_history =
                    Append(@, Message("interviewer", next_question[1].question,
                                      state.current_phase, next_question[1].id))]
        ELSE state

\* Lines 564-584.
AskNext(bank, state) ==
    IF state.current_phase # WRAPUP
    THEN AskQuestion(bank, LeaveGreeting(state))
    ELSE state

\* Mutant of next_phase: the ceiling is compared with > instead of >=.
next_phase_Above(bank, state) ==
    IF total_questions(state) > QuestionCeiling
    THEN (IF state.current_question = None THEN WRAPUP ELSE state.current_phase)
    ELSE transition_to_next_phase(bank, state)

\* Lines 592-602: the phase after the ceiling check and the phase machine.
next_phase(bank, state) ==
    IF total_questions(state) >= QuestionCeiling
    THEN (IF state.current_question = None THEN WRAPUP ELSE state.current_phase)
    ELSE transition_to_next_phase(bank, state)

\* Mutant of AppendReport: no report is appended.
AppendReport_Skip(state, outcome) == state

\* Lines 605-627: in wrapup the report is built and appended.
AppendReport(state, outcome) ==
    IF state.current_phase = WRAPUP
    THEN [state EXCEPT !.conversation_history =
            Append(@, Message("interviewer",
                              generate_ai_final_report(state,
                                  ScoreSum(state.evaluation_scores),
                                  Len(state.evaluation_scores),
                                  phase_scores(state.evaluation_scores), outcome),
                              WRAPUP, None))]
    ELSE state

\* Lines 587-627.
AdvancePhase(bank, state, outcome) ==
    IF state.current_phase # GREETING
    THEN AppendReport([state EXCEPT !.current_phase = next_phase(bank, state)], outcome)
    ELSE state

\* Lines 541-584: the answer is recorded, the pending question is scored
\* and the next question is asked.
AnswerAndAsk(bank, state, response) ==
    AskNext(bank, EvaluatePending(AppendCandidate(state, response), response))

\* Lines 539-629.
process_candidate_response(bank, state, response, outcome) ==
    AdvancePhase(bank, AnswerAndAsk(bank, state, response), outcome)

\* The states process_candidate_response(state, response) can return, over
\* the outcomes of the enrichment request.
Turns(bank, state, response) ==
    LET asked == AnswerAndAsk(bank, state, response)
    IN  {AdvancePhase(bank, asked, outcome) : outcome \in RequestOutcomes}

(***************************************************************************)
(* State.                                                                  *)
(***************************************************************************)
VARIABLES
    questions,          \* agent.questions: the question bank
    interview_state,    \* st.session_state.interview_state (Optional)
    call,               \* a call of a pure function: its name and arguments
    ret                 \* what the calls of that function returned, in order

vars == <<questions, interview_state, call, ret>>

NoCall == [fn |-> "none"]

(***************************************************************************)
(* Inputs.                                                                 *)
(***************************************************************************)
PhasePrefix(p) ==
    IF p = WARMUP THEN "w" ELSE IF p = CORE_SKILLS THEN "c"
    ELSE IF p = SCENARIO_BASED THEN "s" ELSE "t"

PhaseText(p) ==
    IF p = WARMUP THEN Str(W1Text) ELSE IF p = CORE_SKILLS THEN Str(C1Text)
    ELSE IF p = SCENARIO_BASED THEN Str(S1Text) ELSE Str(T1Text)

\* A bank with lens[p] questions in phase p, as a well-formed document with
\* that many entries per section loads it.
GenBank(lens) ==
    [p \in QuestionPhases |->
        [i \in 1..lens[p] |-> Question(<<PhasePrefix(p), i>>, PhaseText(p))]]

PhaseLens == (0..MaxSmallLen) \cup {BigLen}

\* Banks of documents whose entries have an empty id or a question text
\* that is not a string.
EmptyIdBank ==
    [GenBank([p \in QuestionPhases |-> 1]) EXCEPT
        ![WARMUP] = <<Question(EmptyId, Str(W1Text)), Question(<<"w", 2>>, Str(W2Text))>>]
NullTextBank ==
    [GenBank([p \in QuestionPhases |-> 1]) EXCEPT
        ![CORE_SKILLS] = <<Question(<<"c", 1>>, JsonNull)>>]

\* A bank of 17 questions, one short of the ceiling, with no empty list.
SeventeenBank ==
    GenBank([p \in QuestionPhases |-> IF p = WARMUP THEN 5 ELSE 4])

\* A bank of exactly as many questions as the ceiling, with no empty list.
EighteenBank ==
    GenBank([p \in QuestionPhases |-> IF p \in {WARMUP, CORE_SKILLS} THEN 5 ELSE 4])

Banks ==
    {get_fallback_questions, EmptyIdBank, NullTextBank, SeventeenBank, EighteenBank}
        \cup {GenBank(lens) : lens \in [QuestionPhases -> PhaseLens]}

\* Answers.
RichAnswer ==
    Padded(<<"Excel", "spreadsheet", "workbook", "worksheet", "formula", "function",
             "data.", "=SUM(A1:A10).", "PivotTables", "for", "instance", "sumif",
             "check", "experience">>, 40)
DefaultResponse == Str(IDontKnow)
SessionResponses == {Str(IDontKnow), Str(VlookupAnswer), RichAnswer}

CandidateNames == {Str(<<"Asha">>), Str(<<"Ravi">>), Str(<<"Meena">>), Str(<<>>)}

\* Lines 797-814: the session main creates when the start form is submitted.
GreetingMessage(name) ==
    Message("interviewer", [kind |-> "greeting", name |-> name], GREETING, None)
StartedSession(name) ==
    InterviewState(name, WARMUP, <<GreetingMessage(name)>>, None, <<>>)

(***************************************************************************)
(* Turns.                                                                  *)
(***************************************************************************)
State == interview_state[1]

\* Candidate messages since the last interviewer message outside wrapup:
\* turns in which nothing was asked.
RECURSIVE StalledTurns(_)
StalledTurns(history) ==
    IF history = <<>> THEN 0
    ELSE LET last == history[Len(history)]
             front == SubSeq(history, 1, Len(history) - 1)
         IN  IF last.role = "interviewer" /\ last.phase # WRAPUP THEN 0
             ELSE (IF last.role = "candidate" THEN 1 ELSE 0) + StalledTurns(front)

Answered(state) ==
    LET ByCandidate(msg) == msg.role = "candidate"
    IN  Len(SelectSeq(state.conversation_history, ByCandidate))

\* The answers a turn draws from: any of SessionResponses for the first
\* MaxVaried turns, the default answer afterwards.
Answers(state) ==
    IF Answered(state) < MaxVaried THEN SessionResponses ELSE {DefaultResponse}

TurnAllowed(state) == StalledTurns(state.conversation_history) < MaxExtraTurns

\* A call of process_candidate_response(state, response) on the session,
\* under any outcome of the enrichment request.
ProcessCandidateResponse ==
    /\ interview_state # None
    /\ TurnAllowed(State)
    /\ \E response \in Answers(State) :
          \E after \in Turns(questions, State, response) : interview_state' = Some(after)
    /\ UNCHANGED <<questions, call, ret>>

Init ==
    /\ questions \in Banks
    /\ interview_state = Some(StartedSession(Str(<<"Asha">>)))
    /\ call = NoCall
    /\ ret = None

Next == ProcessCandidateResponse

\* Sessions under calls of process_candidate_response, for every bank.
Spec == Init /\ [][Next]_vars

(***************************************************************************)
(* The page: main's handlers.                                              *)
(***************************************************************************)
\* Mutant of Blank: no text is taken for empty.
Blank_Never(s) == FALSE

\* str.strip() is falsy: the text has no word.
Blank(s) == Split(s) = <<>>

\* Lines 791-816: the start form is submitted with a name.
StartInterview ==
    /\ interview_state = None
    /\ \E candidate_name \in CandidateNames :
          IF ~Blank(candidate_name)
          THEN interview_state' = Some(StartedSession(candidate_name))
          ELSE UNCHANGED interview_state
    /\ UNCHANGED <<questions, call, ret>>

\* Lines 874-896: "Send Response" with a non-empty answer; the input is only
\* shown outside wrapup.
SendAnswer ==
    /\ interview_state # None
    /\ State.current_phase # WRAPUP
    /\ TurnAllowed(State)
    /\ \E response \in Answers(State) :
          /\ ~Blank(response)
          /\ \E after \in Turns(questions, State, response) : interview_state' = Some(after)
    /\ UNCHANGED <<questions, call, ret>>

\* Lines 890-898: "Send Response" with an empty answer.
SendBlank ==
    /\ interview_state # None
    /\ State.current_phase # WRAPUP
    /\ \E response \in {Str(<<>>)} :
          /\ Blank(response)
          /\ UNCHANGED interview_state
    /\ UNCHANGED <<questions, call, ret>>

\* Lines 780-782: "End Interview".
EndInterview ==
    /\ interview_state # None
    /\ interview_state' = None
    /\ UNCHANGED <<questions, call, ret>>

(***************************************************************************)
(* Question documents.                                                     *)
(***************************************************************************)
\* The entries a generated document is made of: one per section tag, one
\* with an unknown tag, one without a tag, and one that is not an object.
DocEntries ==
    {Entry(<<"q", 1>>, Some(t), Str(C1Text)) :
        t \in {"warmup", "core", "scenario", "troubleshoot", "advanced"}}
    \cup {Entry(<<"q", 2>>, None, Str(W2Text)), ScalarEntry}

RECURSIVE SeqsUpTo(_, _)
SeqsUpTo(S, n) ==
    IF n = 0 THEN {<<>>}
    ELSE LET shorter == SeqsUpTo(S, n - 1)
         IN  shorter \cup {Append(q, x) : q \in shorter, x \in S}

Document(kind, entries) == [kind |-> kind, questions |-> entries]

Documents ==
    {Document(k, None) : k \in {"missing", "unparseable", "array", "object"}}
    \cup {Document("object", Some(es)) : es \in SeqsUpTo(DocEntries, MaxEntries)}

\* The banks an agent can be constructed with from these documents.
LoadedBanks == {load_question_bank(doc) : doc \in Documents}

UiInit ==
    /\ questions \in LoadedBanks
    /\ interview_state = None
    /\ call = NoCall
    /\ ret = None

UiNext == StartInterview \/ SendAnswer \/ SendBlank \/ EndInterview

\* The page with a candidate who keeps answering.
UiSpec == UiInit /\ [][UiNext]_vars /\ WF_vars(SendAnswer)

\* The page when the question document is absent and the candidate keeps
\* answering until the interview is over.
FallbackInit ==
    /\ questions = load_question_bank(Document("missing", None))
    /\ interview_state = None
    /\ call = NoCall
    /\ ret = None

FallbackNext == StartInterview \/ SendAnswer \/ SendBlank

\* Lines 873-874: the answer form is on the page.
CanSend ==
    /\ interview_state # None
    /\ State.current_phase # WRAPUP
    /\ TurnAllowed(State)

\* The candidate keeps answering: weak fairness of SendAnswer, written out
\* with the guard of the handler as its enabling condition (a turn always
\* appends the candidate's message, so SendAnswer changes the state
\* whenever CanSend holds).
KeepsAnswering == []<>(~CanSend) \/ []<><<SendAnswer>>_vars

\* The guard is the enabling condition of the handler, which makes
\* KeepsAnswering the formula WF_vars(SendAnswer); an invariant of
\* FallbackInit /\ [][FallbackNext]_vars.
CanSendIsEnabled == CanSend <=> ENABLED <<SendAnswer>>_vars

FallbackSpec == FallbackInit /\ [][FallbackNext]_vars /\ KeepsAnswering

(***************************************************************************)
(* Calls of the pure functions.                                            *)
(***************************************************************************)
\* The words generated answers are made of.
ProbeWords ==
    {"formula", "data.", "=SUM(A1:A10).", "pivot", "for", "instance", "check", "experience"}
\* Filler lengths that put the word count at and on both sides of 20 and 50.
PadChoices == {0, 19, 49}

ScorerResponses ==
    {Str(VlookupAnswer), Str(IDontKnow), RichAnswer}
    \cup {Padded(ws, pad) : ws \in SeqsUpTo(ProbeWords, MaxWords), pad \in PadChoices}

CountQuestion == Question(<<"q", 1>>, Str(<<"Count", "items">>))
NullQuestion == Question(<<"q", 2>>, JsonNull)
FallbackQuestionSet ==
    UNION {{get_fallback_questions[p][i] : i \in DOMAIN get_fallback_questions[p]} :
              p \in QuestionPhases}
ScorerQuestions == FallbackQuestionSet \cup {CountQuestion, NullQuestion}

EvaluateCall(fn, question, response, phase) ==
    [fn |-> fn, question |-> question, response |-> response, phase |-> phase]

ScorerCalls ==
    {EvaluateCall("_ai_evaluate_response", q, r, p) :
        q \in {get_fallback_questions[CORE_SKILLS][1], NullQuestion},
        r \in ScorerResponses, p \in InterviewPhase}
    \cup {EvaluateCall("_rule_based_evaluate_response", q, r, CORE_SKILLS) :
            q \in ScorerQuestions, r \in ScorerResponses}

\* A call of _ai_evaluate_response returns.
AiEvaluate ==
    /\ call.fn = "_ai_evaluate_response"
    /\ ret = None
    /\ ret' = Some(ai_evaluate_response(call.question, call.response, call.phase))
    /\ UNCHANGED <<questions, interview_state, call>>

\* A call of _rule_based_evaluate_response returns.
RuleEvaluate ==
    /\ call.fn = "_rule_based_evaluate_response"
    /\ ret = None
    /\ ret' = Some(rule_based_evaluate_response(call.question, call.response, call.phase))
    /\ UNCHANGED <<questions, interview_state, call>>

ScorerInit ==
    /\ questions = get_fallback_questions
    /\ interview_state = None
    /\ call \in ScorerCalls
    /\ ret = None

ScorerNext == AiEvaluate \/ RuleEvaluate

\* The two scorers applied to generated answers.
ScorerSpec == ScorerInit /\ [][ScorerNext]_vars

ScoredInit == ScorerInit \/ Init
ScoredNext == ScorerNext \/ Next

\* The scorers applied to generated answers, and sessions scored by
\* _ai_evaluate_response.
ScoredSpec == ScoredInit /\ [][ScoredNext]_vars

\* The agent is constructed: __init__ loads the question bank.
LoadQuestionBank ==
    /\ call.fn = "_load_question_bank"
    /\ ret = None
    /\ ret' = Some(load_question_bank(call.document))
    /\ questions' = load_question_bank(call.document)
    /\ UNCHANGED <<interview_state, call>>

LoaderInit ==
    /\ questions = [p \in QuestionPhases |-> <<>>]
    /\ interview_state = None
    /\ call \in {[fn |-> "_load_question_bank", document |-> doc] : doc \in Documents}
    /\ ret = None

LoaderNext == LoadQuestionBank

\* The loader applied to generated documents.
LoaderSpec == LoaderInit /\ [][LoaderNext]_vars

(***************************************************************************)
(* Calls of the report builder.                                            *)
(***************************************************************************)
\* Evaluation records the inputs of the report builder are derived from, as
\* lines 606-616 derive them.
ScoreRecords ==
    {[question_id |-> <<"q", 1>>, score |-> s, phase |-> p] :
        s \in {10, 40, 60, 62, 80}, p \in {WARMUP, CORE_SKILLS}}

\* Lines 607-616: the arguments the driver computes from the evaluation
\* records; the records are kept with the call.
ReportCall(scores) ==
    [fn |-> "_generate_fallback_report", evaluation_scores |-> scores,
     sum |-> ScoreSum(scores), n |-> Len(scores),
     by_phase |-> phase_scores(scores), total |-> Len(scores)]

\* A direct call whose phase_scores has a category with an empty list.
WithEmptyCategory(c) ==
    [c EXCEPT !.by_phase = Append(@, [phase |-> TROUBLESHOOTING, scores |-> <<>>])]

ReportCalls ==
    LET FromRecords == {ReportCall(scores) : scores \in SeqsUpTo(ScoreRecords, MaxRecords)}
    IN  FromRecords \cup {WithEmptyCategory(c) : c \in FromRecords}

\* Mutant of GenerateFallbackReport: the question count is taken from the
\* session when there is one.
GenerateFallbackReport_FromSession ==
    /\ call.fn = "_generate_fallback_report"
    /\ Len(ret) < MaxReportCalls
    /\ ret' = Append(ret, generate_fallback_report(call.sum, call.n, call.by_phase,
                         IF interview_state = None THEN call.total
                         ELSE Len(State.conversation_history)))
    /\ UNCHANGED <<questions, interview_state, call>>

\* A call of _generate_fallback_report(avg_score, phase_scores,
\* total_questions) returns.
GenerateFallbackReport ==
    /\ call.fn = "_generate_fallback_report"
    /\ Len(ret) < MaxReportCalls
    /\ ret' = Append(ret, generate_fallback_report(call.sum, call.n, call.by_phase,
                                                  call.total))
    /\ UNCHANGED <<questions, interview_state, call>>

ReportInit ==
    /\ questions = get_fallback_questions
    /\ interview_state = None
    /\ call \in ReportCalls
    /\ ret = None

ReportNext == GenerateFallbackReport \/ StartInterview \/ EndInterview

\* The report builder called repeatedly with the same inputs while sessions
\* are started and ended.
ReportSpec == ReportInit /\ [][ReportNext]_vars
(***************************************************************************)
(* Properties.                                                             *)
(***************************************************************************)
Active == interview_state # None

\* A step that is one call of process_candidate_response on the session.
IsTurn == Active /\ interview_state' # None /\ interview_state' # interview_state
Before == interview_state[1]
After == interview_state'[1]

PhaseRank(p) ==
    IF p = GREETING THEN 0 ELSE IF p = WARMUP THEN 1 ELSE IF p = CORE_SKILLS THEN 2
    ELSE IF p = SCENARIO_BASED THEN 3 ELSE IF p = TROUBLESHOOTING THEN 4
    ELSE IF p = WRAPUP THEN 5 ELSE 6

\* Interviewer messages tagged with phase p.
Tagged(state, p) ==
    LET Of(msg) == msg.role = "interviewer" /\ msg.phase = p
    IN  Len(SelectSeq(state.conversation_history, Of))

\* Questions asked: interviewer messages tagged with one of the four
\* question phases.
QuestionsAsked(state) ==
    LET Of(msg) == msg.role = "interviewer" /\ msg.phase \in QuestionPhases
    IN  Len(SelectSeq(state.conversation_history, Of))

\* Interviewer messages with a phase tag other than greeting.
NonGreetingMessages(state) ==
    LET Of(msg) == msg.role = "interviewer" /\ msg.phase # GREETING
    IN  Len(SelectSeq(state.conversation_history, Of))

\* Report messages: interviewer messages tagged wrapup.
Reports(state) == Tagged(state, WRAPUP)

ListLen(p) == Len(QuestionsOf(questions, p))

\* C1: in a turn that starts in a question phase P with a non-empty list of
\* n questions and ends with fewer than 18 questions asked, the phase
\* becomes P's successor if the interviewer messages tagged P number n, and
\* stays P (fewer than n are tagged) otherwise.
C1_PhaseAdvancesOnExhaustion ==
    [][ ( /\ IsTurn
          /\ Before.current_phase \in QuestionPhases
          /\ ListLen(Before.current_phase) >= 1
          /\ QuestionsAsked(After) < QuestionCeiling )
        => IF Tagged(After, Before.current_phase) = ListLen(Before.current_phase)
           THEN After.current_phase = Successor(Before.current_phase)
           ELSE /\ Tagged(After, Before.current_phase) < ListLen(Before.current_phase)
                /\ After.current_phase = Before.current_phase ]_vars

\* C1 witness: the session has just left core_skills for scenario_based
\* after the last of at least two core_skills questions was asked, and the
\* session is still in a phase it has not exhausted elsewhere.
C1_Witness ==
    /\ Active
    /\ State.current_phase = SCENARIO_BASED
    /\ ListLen(CORE_SKILLS) >= 2
    /\ Tagged(State, CORE_SKILLS) = ListLen(CORE_SKILLS)
    /\ Tagged(State, SCENARIO_BASED) = 0
    /\ State.current_question # None
    /\ QuestionsAsked(State) < QuestionCeiling

\* C2: whenever at least 18 interviewer messages carry a non-greeting phase
\* tag and no question is pending, the current phase is wrapup.
C2_CeilingForcesWrapup ==
    ( /\ Active
      /\ NonGreetingMessages(State) >= QuestionCeiling
      /\ State.current_question = None )
    => State.current_phase = WRAPUP

\* C2 witness: wrapup was entered by the ceiling from core_skills: 18
\* questions were asked, and scenario_based and troubleshooting, which have
\* questions, were never entered.
C2_Witness ==
    /\ Active
    /\ State.current_phase = WRAPUP
    /\ State.current_question = None
    /\ QuestionsAsked(State) >= QuestionCeiling
    /\ ListLen(SCENARIO_BASED) >= 1
    /\ ListLen(TROUBLESHOOTING) >= 1
    /\ Tagged(State, SCENARIO_BASED) = 0
    /\ Tagged(State, TROUBLESHOOTING) = 0
    /\ \A i \in DOMAIN State.conversation_history :
          State.conversation_history[i].phase \notin {SCENARIO_BASED, TROUBLESHOOTING}

\* C3: the transcript never holds more than one report message, and holds
\* one as soon as the phase is wrapup.
C3_ReportExactlyOnce ==
    Active =>
        /\ Reports(State) <= 1
        /\ (State.current_phase = WRAPUP => Reports(State) = 1)

\* C4: every turn leaves the previous transcript as a prefix of the new
\* one, and the phase tags of every reachable transcript are non-decreasing
\* in the order greeting < warmup < core_skills < scenario_based <
\* troubleshooting < wrapup.
IsPrefix(old, new) ==
    Len(old) <= Len(new) /\ SubSeq(new, 1, Len(old)) = old
PhaseMonotone(history) ==
    \A i \in 1..(Len(history) - 1) :
        PhaseRank(history[i].phase) <= PhaseRank(history[i + 1].phase)
C4_TranscriptAppendOnlyMonotone ==
    /\ [](Active => PhaseMonotone(State.conversation_history))
    /\ [][IsTurn => IsPrefix(Before.conversation_history, After.conversation_history)]_vars

\* C4 witness: a transcript that holds messages of all six phases and a
\* candidate message after the report.
C4_Witness ==
    /\ Active
    /\ \A p \in QuestionPhases \cup {GREETING, WRAPUP} :
          \E i \in DOMAIN State.conversation_history :
              State.conversation_history[i].phase = p
    /\ \E i \in DOMAIN State.conversation_history :
          /\ State.conversation_history[i].role = "candidate"
          /\ State.conversation_history[i].phase = WRAPUP

\* C5: the current phase never moves backward in the fixed order, and a
\* turn that starts in wrapup ends in wrapup, asks no question and leaves
\* no question pending.
C5_PhaseForwardWrapupTerminal ==
    [][ IsTurn =>
          /\ PhaseRank(After.current_phase) >= PhaseRank(Before.current_phase)
          /\ ( Before.current_phase = WRAPUP =>
                  /\ After.current_phase = WRAPUP
                  /\ QuestionsAsked(After) = QuestionsAsked(Before)
                  /\ After.current_question = None ) ]_vars

\* C5 witness: a turn was made in wrapup (a candidate message is tagged
\* wrapup) in a session that went through all four question phases.
C5_Witness ==
    /\ Active
    /\ State.current_phase = WRAPUP
    /\ \A p \in QuestionPhases : Tagged(State, p) >= 1
    /\ \E i \in DOMAIN State.conversation_history :
          /\ State.conversation_history[i].role = "candidate"
          /\ State.conversation_history[i].phase = WRAPUP

Returned == ret # None
Result == ret[1]
IsAiCall == call.fn = "_ai_evaluate_response"
IsRuleCall == call.fn = "_rule_based_evaluate_response"

\* C6: the score returned by _ai_evaluate_response and by
\* _rule_based_evaluate_response lies in [1, 10] (10..100 tenths) for every
\* answer, question and phase.
C6_ScoreInRange ==
    (Returned /\ (IsAiCall \/ IsRuleCall)) =>
        /\ Result # Raised
        /\ Result.score >= 10
        /\ Result.score <= 100

\* C6 witness: _ai_evaluate_response returned the lower bound for an answer
\* whose four sub-scores sum to less than 4.
C6_Witness ==
    /\ Returned
    /\ IsAiCall
    /\ IsStr(call.question.question)
    /\ total_score(call.response, call.phase) < 100
    /\ Result.score = 10

\* C7: when evaluating raises an error, nothing is propagated and the
\* neutral result (score 5.0, generic text) is returned, whatever the
\* answer, the question and the phase.
C7_ErrorGivesNeutralResult ==
    (Returned /\ (IsAiCall \/ IsRuleCall)) =>
        /\ Result # Raised
        /\ ( LowerRaises(call.question, call.response) =>
               /\ Result.score = 50
               /\ Result.reasoning = <<"Basic response evaluation">>
               /\ Result.strengths = <<"Responded to question">>
               /\ Result.areas_for_improvement = <<"Could provide more technical detail">> )

\* C7 witness: _ai_evaluate_response was called with a question whose text
\* is not a string, for an answer it would otherwise score above 5.0.
C7_Witness ==
    /\ Returned
    /\ IsAiCall
    /\ ~IsStr(call.question.question)
    /\ final_score(call.response, call.phase) > 500
    /\ Result.score = 50

DocumentFailsToLoad == DocumentRaises(call.document)
BankSize(bank) == SumSeq([i \in 1..4 |->
    Len(bank[<<WARMUP, CORE_SKILLS, SCENARIO_BASED, TROUBLESHOOTING>>[i]])])
IdsOf(list) == [i \in DOMAIN list |-> list[i].id]

\* C8 as stated: when the document is missing or malformed the bank holds
\* exactly four questions, one for each of the four phases.
C8_FallbackHasFourQuestions ==
    (Returned /\ call.fn = "_load_question_bank" /\ DocumentFailsToLoad) =>
        /\ BankSize(Result) = 4
        /\ \A p \in QuestionPhases : Len(Result[p]) = 1

\* C8 amended: when the document is missing or loading it raises (it cannot
\* be parsed, its top level is not an object, or an entry is not an object)
\* the bank holds exactly the six built-in questions: w1 and w2 for warmup,
\* c1 and c2 for core_skills, s1 for scenario_based, t1 for troubleshooting.
C8_FallbackHasSixQuestions ==
    (Returned /\ call.fn = "_load_question_bank" /\ DocumentFailsToLoad) =>
        /\ DOMAIN Result = QuestionPhases
        /\ BankSize(Result) = 6
        /\ IdsOf(Result[WARMUP]) = << <<"w", 1>>, <<"w", 2>> >>
        /\ IdsOf(Result[CORE_SKILLS]) = << <<"c", 1>>, <<"c", 2>> >>
        /\ IdsOf(Result[SCENARIO_BASED]) = << <<"s", 1>> >>
        /\ IdsOf(Result[TROUBLESHOOTING]) = << <<"t", 1>> >>
        /\ questions = Result

\* C8 witness: the bank was loaded from a document whose second entry is
\* not an object, after a well-formed first entry.
C8_Witness ==
    /\ Returned
    /\ call.fn = "_load_question_bank"
    /\ call.document.kind = "object"
    /\ call.document.questions # None
    /\ Len(call.document.questions[1]) = 2
    /\ call.document.questions[1][1].kind = "object"
    /\ call.document.questions[1][2].kind = "scalar"
    /\ BankSize(Result) = 6

FallbackIds ==
    { <<"w", 1>>, <<"w", 2>>, <<"c", 1>>, <<"c", 2>>, <<"s", 1>>, <<"t", 1>> }
AskedIds(state) ==
    {state.conversation_history[i].question_id :
        i \in {j \in DOMAIN state.conversation_history :
                 state.conversation_history[j].role = "interviewer"
                 /\ state.conversation_history[j].phase \in QuestionPhases}}
LastMessage(state) == state.conversation_history[Len(state.conversation_history)]

\* The fallback session is over: wrapup, all six questions asked once, the
\* report appended last.
FallbackSessionDone ==
    /\ Active
    /\ State.current_phase = WRAPUP
    /\ AskedIds(State) = FallbackIds
    /\ QuestionsAsked(State) = 6
    /\ Reports(State) = 1
    /\ LastMessage(State).role = "interviewer"
    /\ LastMessage(State).phase = WRAPUP
    /\ LastMessage(State).content.kind = "report"

\* C9: with the fallback bank, a started session whose candidate keeps
\* sending non-empty answers eventually reaches wrapup with every fallback
\* question asked and the report appended; fewer than 18 questions are ever
\* asked, and every phase change goes from a phase to its successor when
\* the interviewer messages tagged with that phase number its list length.
C9_FallbackSessionReachesWrapup ==
    /\ Active ~> FallbackSessionDone
    /\ [](Active => NonGreetingMessages(State) < QuestionCeiling)
    /\ [](Active /\ State.current_phase = WRAPUP => Reports(State) = 1)
    /\ [][ (IsTurn /\ After.current_phase # Before.current_phase) =>
              /\ After.current_phase = Successor(Before.current_phase)
              /\ Tagged(After, Before.current_phase) = ListLen(Before.current_phase)
              /\ ListLen(Before.current_phase) >= 1 ]_vars

\* C9 witness: the fallback session is over and the answers were not all
\* the same.
C9_Witness ==
    /\ FallbackSessionDone
    /\ questions = get_fallback_questions
    /\ \E i, j \in DOMAIN State.conversation_history :
          /\ State.conversation_history[i].role = "candidate"
          /\ State.conversation_history[j].role = "candidate"
          /\ State.conversation_history[i].content # State.conversation_history[j].content

IsVlookupScenario ==
    /\ Returned
    /\ IsAiCall
    /\ call.response = Str(VlookupAnswer)
    /\ call.phase = CORE_SKILLS
    /\ IsStr(call.question.question)

\* C10 as stated: the VLOOKUP answer scored in core_skills gets at least 7
\* and a non-empty strengths list.
C10_VlookupScoresAtLeastSeven ==
    IsVlookupScenario =>
        /\ Result.score >= 70
        /\ Result.strengths # <<>>

\* C10 amended: the VLOOKUP answer (20 words, no core-terminology term, no
\* domain term, no period) scored in core_skills gets 3.0, which is
\* (9 + 1 + 2 + 0) / 4, and the strengths list holds the notes of the
\* formula-name, pivot/table and example checks.
C10_VlookupScoresThree ==
    IsVlookupScenario =>
        /\ word_count(call.response) = 20
        /\ ~AnyWord(Lower(call.response), CoreTerms)
        /\ excel_term_count(Lower(call.response)) = 0
        /\ CountPeriods(call.response) = 0
        /\ Result.score = 30
        /\ Result.strengths = <<"Demonstrates knowledge of Excel functions",
                                "Shows understanding of data analysis tools",
                                "Provides examples">>

\* C10 witness: the VLOOKUP answer was scored in core_skills.
C10_Witness == IsVlookupScenario /\ Result.score < 70


\* An answer without keyword hits: no term of the technical-accuracy, phase,
\* example or domain lists is in it.
NoKeywordHits(response, phase) ==
    /\ technical_accuracy(Lower(response), phase) = 0
    /\ ~HasExample(Lower(response))
    /\ excel_term_count(Lower(response)) = 0

IsShortPlainAnswer ==
    /\ Returned
    /\ IsAiCall
    /\ word_count(call.response) = 3
    /\ NoKeywordHits(call.response, call.phase)

ShortAnswerResult ==
    /\ completeness(call.response) = 1
    /\ Result.score <= 40
    /\ \E i \in DOMAIN Result.areas_for_improvement :
          Result.areas_for_improvement[i] = "Could provide more detail"

\* C11 as stated: a 3-word answer without keyword hits gets completeness 1,
\* a score of at most 4 and the 'Could provide more detail' entry, for
\* every question and every phase.
C11_ShortAnswerAnyQuestion == IsShortPlainAnswer => ShortAnswerResult

\* C11 amended: a 3-word answer without keyword hits gets completeness 1, a
\* score of at most 4 (it is 1.0) and the 'Could provide more detail'
\* entry, for every phase and every question whose text is a string.
C11_ShortAnswerStringQuestion ==
    (IsShortPlainAnswer /\ IsStr(call.question.question)) =>
        /\ ShortAnswerResult
        /\ Result.score = 10

\* C11 witness: 'I don't know' was scored in troubleshooting against a
\* question whose text is a string.
C11_Witness ==
    /\ IsShortPlainAnswer
    /\ IsStr(call.question.question)
    /\ call.response = Str(IDontKnow)
    /\ call.phase = TROUBLESHOOTING

\* C12 as stated: completeness is 4 above 50 words, 2 from 20 to 50 words
\* (both included) and 1 below 20 words.
C12_CompletenessBandsInclusive ==
    (Returned /\ IsAiCall /\ IsStr(call.question.question)) =>
        completeness(call.response) =
            IF word_count(call.response) > 50 THEN 4
            ELSE IF word_count(call.response) >= 20 THEN 2
            ELSE 1

\* C12 amended: completeness is 4 above 50 words, 2 from 21 to 50 words and
\* 1 up to 20 words, so an answer of exactly 20 words gets 1; the
\* 'Could provide more detail' entry is given exactly in the last case and
\* the 'Provides comprehensive answer' strength exactly in the first.
C12_CompletenessBands ==
    (Returned /\ IsAiCall /\ IsStr(call.question.question)) =>
        LET w == word_count(call.response)
            detail == \E i \in DOMAIN Result.areas_for_improvement :
                         Result.areas_for_improvement[i] = "Could provide more detail"
            comprehensive == \E i \in DOMAIN Result.strengths :
                                Result.strengths[i] = "Provides comprehensive answer"
        IN  /\ w > 50 => completeness(call.response) = 4 /\ comprehensive /\ ~detail
            /\ (w >= 21 /\ w <= 50) => completeness(call.response) = 2 /\ ~comprehensive /\ ~detail
            /\ w <= 20 => completeness(call.response) = 1 /\ ~comprehensive /\ detail

\* C12 witness: an answer of exactly 50 words was scored.
C12_Witness ==
    /\ Returned
    /\ IsAiCall
    /\ IsStr(call.question.question)
    /\ word_count(call.response) = 50
    /\ completeness(call.response) = 2

IsReportCall == call.fn = "_generate_fallback_report"

CandidateMessages(state) ==
    LET Of(msg) == msg.role = "candidate"
    IN  SelectSeq(state.conversation_history, Of)

\* A text without a word: empty or whitespace only.
IsEmptyText(s) == word_count(s) = 0

\* C14: an empty or whitespace-only name creates no session and an empty or
\* whitespace-only answer is not passed to process_candidate_response: no
\* session has a blank candidate name, no transcript holds a blank
\* candidate message, a session is only ever created as the started session
\* of a non-blank name, and a session only ever changes by a turn on a
\* non-blank answer (or ends).
C14_BlankInputRejected ==
    /\ [](Active =>
            /\ ~IsEmptyText(State.candidate_name)
            /\ \A i \in DOMAIN CandidateMessages(State) :
                  ~IsEmptyText(CandidateMessages(State)[i].content))
    /\ [][ (~Active /\ interview_state' # None) =>
              /\ ~IsEmptyText(After.candidate_name)
              /\ After = StartedSession(After.candidate_name) ]_vars
    /\ [][ IsTurn =>
              \E response \in SessionResponses, outcome \in RequestOutcomes :
                  /\ ~IsEmptyText(response)
                  /\ After = process_candidate_response(questions, Before, response,
                                                        outcome) ]_vars

\* C14 witness: a session was started and has taken an answer, so that both
\* forms have been on the page with their empty submissions possible.
C14_Witness ==
    /\ Active
    /\ Len(CandidateMessages(State)) >= 2
    /\ State.current_phase # WRAPUP
    /\ State.current_question # None

\* The questions asked under phase p, in transcript order, as bank entries.
AskedUnder(state, p) ==
    LET Of(msg) == msg.role = "interviewer" /\ msg.phase = p
        asked == SelectSeq(state.conversation_history, Of)
    IN  [i \in DOMAIN asked |-> Question(asked[i].question_id, asked[i].content)]

\* Number of question-carrying interviewer messages tagged p: those whose
\* question id is truthy (line 349).
QuestionIndex(state, p) ==
    LET Of(msg) == msg.role = "interviewer" /\ msg.phase = p /\ Truthy(msg.question_id)
    IN  Len(SelectSeq(state.conversation_history, Of))

\* C15: in a turn that does not start in wrapup the question asked is entry
\* k (0-based) of the current phase's list, k being the number of
\* question-carrying interviewer messages tagged with the phase; it becomes
\* pending and one interviewer message with its text and id is appended;
\* without an entry k nothing is asked and nothing is pending.  Hence at
\* every moment the questions asked under a phase are the first entries of
\* its list, in bank order, each once.
C15_QuestionsInBankOrder ==
    /\ [][ (IsTurn /\ Before.current_phase \in QuestionPhases) =>
             LET p == Before.current_phase
                 k == QuestionIndex(Before, p)
             IN  IF k < ListLen(p)
                 THEN /\ After.current_question = Some(QuestionsOf(questions, p)[k + 1])
                      /\ AskedUnder(After, p) =
                            Append(AskedUnder(Before, p), QuestionsOf(questions, p)[k + 1])
                 ELSE /\ After.current_question = None
                      /\ AskedUnder(After, p) = AskedUnder(Before, p) ]_vars
    /\ [](Active => \A p \in QuestionPhases :
            /\ Len(AskedUnder(State, p)) <= ListLen(p)
            /\ AskedUnder(State, p) =
                  SubSeq(QuestionsOf(questions, p), 1, Len(AskedUnder(State, p))))

\* C16: a turn that starts with a pending question q appends exactly one
\* evaluation record, with q's id and the phase the turn starts in, and q is
\* not the pending question afterwards; a turn that starts with nothing
\* pending appends no record.  So no question has two evaluation records.
C16_PendingEvaluatedOnce ==
    /\ [][ IsTurn =>
             IF Before.current_question # None
             THEN /\ Len(After.evaluation_scores) = Len(Before.evaluation_scores) + 1
                  /\ SubSeq(After.evaluation_scores, 1, Len(Before.evaluation_scores))
                        = Before.evaluation_scores
                  /\ LET record == After.evaluation_scores[Len(After.evaluation_scores)]
                     IN  /\ record.question_id = Before.current_question[1].id
                         /\ record.phase = Before.current_phase
                  /\ After.current_question # Before.current_question
             ELSE After.evaluation_scores = Before.evaluation_scores ]_vars
    /\ [](Active => \A i, j \in DOMAIN State.evaluation_scores :
            i # j => State.evaluation_scores[i].question_id
                        # State.evaluation_scores[j].question_id)

\* Question-carrying interviewer messages with a non-greeting phase tag.
QuestionMessages(state) ==
    LET Of(msg) == /\ msg.role = "interviewer"
                   /\ msg.phase # GREETING
                   /\ msg.question_id # None
    IN  SelectSeq(state.conversation_history, Of)

\* C17: in every reachable session state, for every question bank, at most
\* 18 question-carrying interviewer messages have a non-greeting phase tag.
C17_AtMostEighteenQuestions ==
    Active => Len(QuestionMessages(State)) <= QuestionCeiling

HasRecord(state, id) ==
    \E i \in DOMAIN state.evaluation_scores : state.evaluation_scores[i].question_id = id

\* C18: when a turn takes the session into wrapup and appends the report,
\* no question is pending, every question asked has an evaluation record,
\* and the report's 'Questions Answered' count is the number of questions
\* asked.
C18_WrapupEntryAllAnswered ==
    [][ (IsTurn /\ Before.current_phase # WRAPUP /\ After.current_phase = WRAPUP) =>
          /\ After.current_question = None
          /\ \A i \in DOMAIN QuestionMessages(After) :
                HasRecord(After, QuestionMessages(After)[i].question_id)
          /\ LastMessage(After).content.kind = "report"
          /\ LastMessage(After).content.answered = Len(QuestionMessages(After)) ]_vars

\* C19: every evaluation record's phase tag is the phase tag of the
\* interviewer message that carries the record's question id.
C19_RecordPhaseIsAskingPhase ==
    Active =>
        \A i \in DOMAIN State.evaluation_scores :
            \A j \in DOMAIN QuestionMessages(State) :
                QuestionMessages(State)[j].question_id = State.evaluation_scores[i].question_id
                    => QuestionMessages(State)[j].phase = State.evaluation_scores[i].phase

InterviewerMessages(state) ==
    LET Of(msg) == msg.role = "interviewer"
    IN  SelectSeq(state.conversation_history, Of)

\* The session is in phase p, whose question list is empty, with fewer than
\* 18 questions asked.
StuckIn(p) ==
    /\ Active
    /\ State.current_phase = p
    /\ ListLen(p) = 0
    /\ NonGreetingMessages(State) < QuestionCeiling

RecordIds(state) ==
    [i \in DOMAIN state.evaluation_scores |-> state.evaluation_scores[i].question_id]
AskedIdsInOrder(state) ==
    [i \in DOMAIN QuestionMessages(state) |-> QuestionMessages(state)[i].question_id]

\* C21: at every turn boundary the number of evaluation records is the
\* number of question-carrying interviewer messages, less one when a
\* question is pending, and the question ids of the records, in order, are
\* a prefix of the question ids of the questions asked, in order.
C21_RecordsFollowQuestions ==
    Active =>
        /\ Len(State.evaluation_scores) =
              Len(QuestionMessages(State)) - (IF State.current_question # None THEN 1 ELSE 0)
        /\ IsPrefix(RecordIds(State), AskedIdsInOrder(State))

\* C21 witness: three questions of two phases have been asked, two of them
\* are evaluated and the third is pending.
C21_Witness ==
    /\ Active
    /\ State.current_question # None
    /\ Len(State.evaluation_scores) = 2
    /\ Len(QuestionMessages(State)) = 3
    /\ QuestionMessages(State)[1].phase # QuestionMessages(State)[3].phase

\* C22: precedence of the two transition rules.  A turn that ends with at
\* least 18 non-greeting interviewer messages and a question still pending
\* leaves the phase unchanged, whether or not the phase's questions are all
\* asked; a turn that ends with fewer than 18 changes the phase only by the
\* per-phase-exhaustion rule: from a question phase with a non-empty list,
\* all of whose questions are asked, to that phase's successor.
C22_CeilingBeforeExhaustion ==
    [][ IsTurn =>
          /\ ( /\ NonGreetingMessages(After) >= QuestionCeiling
               /\ After.current_question # None )
             => After.current_phase = Before.current_phase
          /\ ( /\ NonGreetingMessages(After) < QuestionCeiling
               /\ After.current_phase # Before.current_phase )
             => /\ Before.current_phase \in QuestionPhases
                /\ ListLen(Before.current_phase) >= 1
                /\ Tagged(After, Before.current_phase) >= ListLen(Before.current_phase)
                /\ After.current_phase = Successor(Before.current_phase) ]_vars

AllListsNonEmpty == \A p \in QuestionPhases : ListLen(p) >= 1

SubScoreSum(response, phase) ==
    LET rl == Lower(response)
    IN  technical_accuracy(rl, phase) + completeness(response)
            + clarity(response, rl) + excel_knowledge(rl)

ExcellentSentence == "Excellent response demonstrating strong Excel knowledge"

\* C24: for every answer and phase the sub-scores of _ai_evaluate_response
\* are at most 12 (technical accuracy), 4 (completeness), 4 (clarity) and 5
\* (Excel knowledge), so their sum is at most 25 and the score before
\* rounding at most 6.25; the scorer never returns the sentence of the
\* '>= 8' band, and in no session are the stored scores, or their average,
\* 8 or more.
C24_AiScoreBelowEight ==
    /\ (IsAiCall /\ IsStr(call.response)) =>
          LET rl == Lower(call.response)
          IN  /\ technical_accuracy(rl, call.phase) <= 12
              /\ completeness(call.response) <= 4
              /\ clarity(call.response, rl) <= 4
              /\ excel_knowledge(rl) <= 5
              /\ SubScoreSum(call.response, call.phase) <= 25
              /\ final_score(call.response, call.phase) <= 625
    /\ (IsAiCall /\ Returned) =>
          /\ Result.score < 80
          /\ \A i \in DOMAIN Result.reasoning : Result.reasoning[i] # ExcellentSentence
    /\ Active =>
          /\ \A i \in DOMAIN State.evaluation_scores : State.evaluation_scores[i].score < 80
          /\ ~AtLeast(ScoreSum(State.evaluation_scores), Len(State.evaluation_scores), 8)

\* C24 witness: a call that returned with the four sub-scores at their
\* maxima: the sum is 25 and the score 6.2.
C24_Witness ==
    /\ IsAiCall /\ Returned /\ IsStr(call.response)
    /\ technical_accuracy(Lower(call.response), call.phase) = 12
    /\ SubScoreSum(call.response, call.phase) = 25
    /\ Result.score = 62

Hit(cond) == IF cond THEN 1 ELSE 0

\* The unrounded score as C25 states it, in hundredths.
StatedScore(response, phase) ==
    LET rl == Lower(response)
        bonus == IF phase = WARMUP THEN 2 * Hit(AnyWord(rl, WarmupTerms))
                 ELSE IF phase = CORE_SKILLS THEN 3 * Hit(AnyWord(rl, CoreSkillsTerms))
                 ELSE IF phase = SCENARIO_BASED THEN 3 * Hit(AnyWord(rl, ScenarioTerms))
                 ELSE IF phase = TROUBLESHOOTING
                 THEN 3 * Hit(AnyWord(rl, TroubleshootingTerms))
                 ELSE 0
        T == 3 * Hit(AnyWord(rl, CoreTerms)) + 4 * Hit(AnyWord(rl, FormulaTerms))
                + 2 * Hit(ContainsWord(rl, "pivot") \/ ContainsWord(rl, "table")) + bonus
        C == IF word_count(response) > 50 THEN 4
             ELSE IF word_count(response) > 20 THEN 2 ELSE 1
        L == 2 * Hit(CountPeriods(response) > 1) + 2 * Hit(HasExample(rl))
        K == Min(5, Cardinality({t \in ExcelTerms : ContainsWord(rl, t)}))
    IN  Min(1000, Max(100, 25 * (T + C + L + K)))

\* C25: for every answer and phase, the unrounded score of
\* _ai_evaluate_response is clamp((T + C + L + K) / 4, 1, 10), with T = 3 for
\* a core-terminology term + 4 for a formula-name term + 2 for 'pivot' or
\* 'table' + the phase bonus (2 in warmup, 3 in core_skills, scenario_based
\* or troubleshooting when a term of the phase's set is present, 0 in any
\* other phase), C the completeness sub-score, L = 2 for more than one
\* period + 2 for an exemplifying phrase, and K the number of domain terms
\* present, at most 5; the returned score is that value rounded to one
\* decimal.
C25_ScoreFormula ==
    (IsAiCall /\ IsStr(call.response)) =>
        /\ final_score(call.response, call.phase) = StatedScore(call.response, call.phase)
        /\ (Returned /\ IsStr(call.question.question)) =>
              Result.score = RoundTenth(StatedScore(call.response, call.phase))

\* C25 witness: a returned call in troubleshooting whose answer has a
\* troubleshooting term and exactly one period, scored above the lower clamp.
C25_Witness ==
    /\ IsAiCall /\ Returned /\ IsStr(call.response) /\ IsStr(call.question.question)
    /\ call.phase = TROUBLESHOOTING
    /\ AnyWord(Lower(call.response), TroubleshootingTerms)
    /\ CountPeriods(call.response) = 1
    /\ StatedScore(call.response, call.phase) > 100
    /\ Result.score = RoundTenth(StatedScore(call.response, call.phase))

\* The mean of a list of scores (tenths), 0 for the empty list, is at least
\* the bound.
MeanAtLeast(list, bound) ==
    IF list = <<>> THEN 0 >= bound ELSE SumSeq(list) >= bound * 10 * Len(list)
StatedNote(list) ==
    IF MeanAtLeast(list, 8) THEN "Excellent performance"
    ELSE IF MeanAtLeast(list, 6) THEN "Good performance"
    ELSE "Needs improvement"
StatedAssessment(list) ==
    IF MeanAtLeast(list, 8) THEN "Excellent Performance!"
    ELSE IF MeanAtLeast(list, 6) THEN "Good Performance"
    ELSE IF MeanAtLeast(list, 4) THEN "Developing Skills"
    ELSE "Needs Focused Learning"
StatedNextSteps(list) ==
    IF MeanAtLeast(list, 6) THEN "Practice advanced Excel features"
    ELSE "Complete Excel fundamentals training"
AllScores(records) == [i \in DOMAIN records |-> records[i].score]

FailingOutcomes ==
    {o \in RequestOutcomes :
        \/ o.kind = "raises"
        \/ o.status_code # 200
        \/ StripLen(o.generated_text) <= 50}

\* The answer of the turn: the candidate message it appended.
TurnResponse == After.conversation_history[Len(Before.conversation_history) + 1].content

\* The message with the deterministic report for the session's records.
StatedReport(state) ==
    Message("interviewer",
            generate_fallback_report(ScoreSum(state.evaluation_scores),
                                     Len(state.evaluation_scores),
                                     phase_scores(state.evaluation_scores),
                                     Len(state.evaluation_scores)),
            WRAPUP, None)

\* C27: in a turn that enters wrapup, whenever the enrichment request fails,
\* times out or yields text of 50 characters or fewer, the turn completes in
\* wrapup and the message it appends last is the deterministic report of
\* _generate_fallback_report(overall average, per-phase score lists, number
\* of evaluations); and under every outcome of the request exactly one
\* report message is appended.
C27_EnrichmentFailureFallsBack ==
    [][ (IsTurn /\ Before.current_phase # WRAPUP /\ After.current_phase = WRAPUP) =>
          /\ Reports(After) = Reports(Before) + 1
          /\ LastMessage(After).role = "interviewer"
          /\ LastMessage(After).phase = WRAPUP
          /\ \A outcome \in FailingOutcomes :
                LET result == process_candidate_response(questions, Before, TurnResponse,
                                                         outcome)
                IN  /\ result.current_phase = WRAPUP
                    /\ Reports(result) = Reports(Before) + 1
                    /\ LastMessage(result) = StatedReport(result) ]_vars

\* C27 witness: the session has entered wrapup after questions of all four
\* phases, and its last message is the deterministic report, which is what
\* the report step appends under each failing outcome of the request.
C27_Witness ==
    /\ Active
    /\ State.current_phase = WRAPUP
    /\ Reports(State) = 1
    /\ Tagged(State, TROUBLESHOOTING) >= 1
    /\ Len(State.evaluation_scores) >= 3
    /\ LastMessage(State) = StatedReport(State)
    /\ Cardinality(FailingOutcomes) = 4
    /\ \A outcome \in FailingOutcomes :
          AppendReport([State EXCEPT !.conversation_history =
                            SubSeq(@, 1, Len(@) - 1)], outcome) = State

Range(seq) == {seq[i] : i \in DOMAIN seq}
NoteIf(cond, text) == IF cond THEN {text} ELSE {}

\* The sentence of the band of a score given in tenths.
BandSentence(score) ==
    IF score >= 80 THEN "Excellent response demonstrating strong Excel knowledge"
    ELSE IF score >= 60 THEN "Good response with solid Excel understanding"
    ELSE IF score >= 40 THEN "Basic response showing some Excel knowledge"
    ELSE "Response needs improvement in technical detail"

\* The notes of the checks that fired on the answer of the call.
StrengthNotes ==
    LET rl == Lower(call.response)
    IN  NoteIf(AnyWord(rl, CoreTerms), "Uses Excel terminology correctly")
        \cup NoteIf(AnyWord(rl, FormulaTerms), "Demonstrates knowledge of Excel functions")
        \cup NoteIf(AnyWord(rl, PivotTerms), "Shows understanding of data analysis tools")
        \cup NoteIf(word_count(call.response) > 50, "Provides comprehensive answer")
        \cup NoteIf(CountPeriods(call.response) > 1, "Well-structured response")
        \cup NoteIf(HasExample(rl), "Provides examples")
        \cup NoteIf(Cardinality({t \in ExcelTerms : ContainsWord(rl, t)}) > 2,
                     "Demonstrates Excel expertise")
ImprovementNotes ==
    NoteIf(word_count(call.response) <= 20, "Could provide more detail")
    \cup NoteIf(Result.score < 40, "Focus on Excel-specific terminology and examples")

\* The list holds each of the notes once, or the generic entry alone when
\* there is no note.
HoldsNotes(list, notes, generic) ==
    /\ list # <<>>
    /\ Len(list) = Cardinality(Range(list))
    /\ Range(list) = IF notes = {} THEN {generic} ELSE notes

TemplatedResult ==
    /\ Result.reasoning = <<BandSentence(Result.score)>>
    /\ HoldsNotes(Result.strengths, StrengthNotes, "Attempted to answer")
    /\ HoldsNotes(Result.areas_for_improvement, ImprovementNotes,
                  "Provide more technical detail")

\* C28 as stated: for every call of _ai_evaluate_response the reasoning is
\* exactly one templated sentence, chosen by the band of the final score
\* (>= 8, >= 6, >= 4, otherwise), and the strengths and improvement lists
\* are not empty: each holds the notes of the checks that fired, or the
\* single generic entry ('Attempted to answer', 'Provide more technical
\* detail') when none fired.
C28_TemplatedResultAnyQuestion == (IsAiCall /\ Returned) => TemplatedResult

\* C28 amended: the same for every call whose question text is a string;
\* for a question whose text is not a string the neutral result is
\* returned, with the reasoning 'Basic response evaluation'.
C28_TemplatedResultStringQuestion ==
    (IsAiCall /\ Returned) =>
        IF IsStr(call.question.question)
        THEN TemplatedResult
        ELSE /\ Result.reasoning = <<"Basic response evaluation">>
             /\ Result.strengths = <<"Responded to question">>
             /\ Result.areas_for_improvement = <<"Could provide more technical detail">>

\* C28 witness: an answer on which no strength check fired was scored
\* against a question whose text is a string: the strengths are the generic
\* entry, the reasoning is the sentence of the lowest band, and both
\* improvement notes are present.
C28_Witness ==
    /\ IsAiCall /\ Returned /\ IsStr(call.question.question)
    /\ StrengthNotes = {}
    /\ Result.strengths = <<"Attempted to answer">>
    /\ Result.reasoning = <<"Response needs improvement in technical detail">>
    /\ Len(Result.areas_for_improvement) = 2
====
